---- MODULE Spec2Model ----
(***************************************************************************)
(* State-machine models of the UI components and state helpers of the aim  *)
(* web UI: TextExplorerAppBar, AskForm, GroupingPopover, RunsContainer,    *)
(* exceptionHandler and onTableResizeModeChange.  Every component has its  *)
(* own specification (SpecAppBar, SpecAskForm, ...); the variables of the  *)
(* other components are pinned to their initial value there.               *)
(***************************************************************************)
EXTENDS Integers, Sequences, FiniteSets, TLC

VARIABLES
    \* TextExplorerAppBar
    popover,        \* React state `popover` ('' | 'create' | 'update')
    appId,          \* route.params.appId (NoAppId when the route has none)
    updateCalls,    \* arguments of the onBookmarkUpdate calls made so far
    lastEvent,      \* history: the last popover handler that ran
    nSave,          \* history: number of clicks on Save
    \* AskForm
    email,          \* React state `email`
    pending,        \* onSendEmail calls in flight: [id, email]
    nextReq,        \* id of the next handleSubmit call
    outcomes,       \* history: outcome of every settled onSendEmail call
    \* GroupingPopover
    groupName,              \* prop groupName
    groupingSelectOptions,  \* prop groupingSelectOptions
    groupingData,           \* prop groupingData, its entries of groupName (NoData: undefined)
    inputValue,             \* React state `inputValue`
    modeCall,               \* the last onGroupingModeChange call, with the val and the mode shown
    optionsByVal,           \* history: per val, whether the calls passed options or null
    \* exceptionHandler
    excPc,          \* the statement exceptionHandler is at ("idle": no call is running)
    excCall,        \* the running (or last) call: its detail, model and message
    requestStatus,  \* per model: state.requestStatus
    notifications,  \* per model: the notifications handed to onNotificationAdd
    resets,         \* per model: the details handed to resetModelOnError
    handled,        \* history: per model, the exceptionHandler calls started
    now,            \* Date.now()
    \* RunsContainer
    mounted,        \* per component instance: the request its effect holds (0: unmounted)
    requests,       \* per request returned by initialize(): its owner and its call/abort events
    initCount,      \* runsAppModel.initialize() calls
    pageViews,      \* analytics.pageView('[RunsExplorer]') calls
    nMounts,        \* history: mounts
    nUnmounts,      \* history: unmounts
    \* onTableResizeModeChange
    appState,       \* per page: the state of the page's model
    storage,        \* local storage: key -> item
    tracked,        \* the last analytics.trackEvent
    resizeCall      \* history: the last onTableResizeModeChange call

appBarVars == <<popover, appId, updateCalls, lastEvent, nSave>>
askVars == <<email, pending, nextReq, outcomes>>
groupingVars ==
    <<groupName, groupingSelectOptions, groupingData, inputValue, modeCall, optionsByVal>>
excVars == <<excPc, excCall, requestStatus, notifications, resets, handled, now>>
runsVars == <<mounted, requests, initCount, pageViews, nMounts, nUnmounts>>
tableVars == <<appState, storage, tracked, resizeCall>>
vars == <<appBarVars, askVars, groupingVars, excVars, runsVars, tableVars>>

\* what each component's actions leave alone
notAppBar == <<askVars, groupingVars, excVars, runsVars, tableVars>>
notAskForm == <<appBarVars, groupingVars, excVars, runsVars, tableVars>>
notGrouping == <<appBarVars, askVars, excVars, runsVars, tableVars>>
notExc == <<appBarVars, askVars, groupingVars, runsVars, tableVars>>
notRuns == <<appBarVars, askVars, groupingVars, excVars, tableVars>>
notTable == <<appBarVars, askVars, groupingVars, excVars, runsVars>>

(***************************************************************************)
(* Bounds                                                                  *)
(***************************************************************************)
MaxSaves == 2
MaxSubmits == 3
MaxOptions == 3
MaxSelected == 2
MaxInput == 2
MaxErrors == 2
MaxClock == 1
MaxMounts == 4

(***************************************************************************)
(* Pinned (initial) values of each component                               *)
(***************************************************************************)
NoAppId == "undefined"
AppIds == {"app1", "app2"}

AppBarPinned ==
    /\ popover = ""
    /\ appId = NoAppId
    /\ updateCalls = <<>>
    /\ lastEvent = "none"
    /\ nSave = 0

AskPinned ==
    /\ email = ""
    /\ pending = {}
    /\ nextReq = 1
    /\ outcomes = <<>>

\* null, and a non-null array, as the `options` of an onGroupingModeChange call
Null == [null |-> TRUE]
Some(list) == [null |-> FALSE, list |-> list]
\* groupingData when the prop is undefined
NoData == [undefined |-> TRUE]
\* modeCall before any call
NoCall == [val |-> "none"]
Modes == {"Group", "Reverse"}

GroupingPinned ==
    /\ groupName = "color"
    /\ groupingSelectOptions = <<>>
    /\ groupingData = NoData
    /\ inputValue = <<>>
    /\ modeCall = NoCall
    /\ optionsByVal = [m \in Modes |-> {}]

Models == {"runsAppModel", "metricsAppModel"}
\* excCall before any call
NoExc == [none |-> TRUE]

ExcPinned ==
    /\ excPc = "idle"
    /\ excCall = NoExc
    /\ requestStatus = [m \in Models |-> "Pending"]
    /\ notifications = [m \in Models |-> <<>>]
    /\ resets = [m \in Models |-> <<>>]
    /\ handled = [m \in Models |-> 0]
    /\ now = 0

Instances == {"c1", "c2", "c3"}

RunsPinned ==
    /\ mounted = [c \in Instances |-> 0]
    /\ requests = <<>>
    /\ initCount = 0
    /\ pageViews = 0
    /\ nMounts = 0
    /\ nUnmounts = 0

Pages == {"metrics", "runs"}
\* the local storage key `${page}Table`
TableKey(page) == <<page, "Table">>
StorageKeys == {TableKey(p) : p \in Pages}
\* a state without config, a config without table, a key without item, no call yet
NoConfig == [undefined |-> TRUE]
NoTable == [undefined |-> TRUE]
NoItem == [null |-> TRUE]
NoResize == [none |-> TRUE]

TablePinned ==
    /\ appState = [p \in Pages |-> [config |-> NoConfig, requestIsPending |-> FALSE]]
    /\ storage = [k \in StorageKeys |-> NoItem]
    /\ tracked = <<>>
    /\ resizeCall = NoResize

PinnedNotAppBar == AskPinned /\ GroupingPinned /\ ExcPinned /\ RunsPinned /\ TablePinned
PinnedNotAskForm == AppBarPinned /\ GroupingPinned /\ ExcPinned /\ RunsPinned /\ TablePinned
PinnedNotGrouping == AppBarPinned /\ AskPinned /\ ExcPinned /\ RunsPinned /\ TablePinned
PinnedNotExc == AppBarPinned /\ AskPinned /\ GroupingPinned /\ RunsPinned /\ TablePinned
PinnedNotRuns == AppBarPinned /\ AskPinned /\ GroupingPinned /\ ExcPinned /\ TablePinned
PinnedNotTable == AppBarPinned /\ AskPinned /\ GroupingPinned /\ ExcPinned /\ RunsPinned

(***************************************************************************)
(* TextExplorerAppBar                                                      *)
(***************************************************************************)
\* const [popover, setPopover] = React.useState<string>(''); route = useRouteMatch()
InitAppBar ==
    /\ popover = ""
    /\ appId \in AppIds \cup {NoAppId}
    /\ updateCalls = <<>>
    /\ lastEvent = "none"
    /\ nSave = 0
    /\ PinnedNotAppBar

setPopover(value) == popover' = value

handleBookmarkClick(value) == setPopover(value)

\* faulty variant: the popover is left as it is
handleClosePopover_NoClose == popover' = popover

handleClosePopover == setPopover("")

\* faulty variant: onBookmarkUpdate is called twice
handleBookmarkUpdate_Twice ==
    /\ updateCalls' = Append(Append(updateCalls, appId), appId)
    /\ handleClosePopover

handleBookmarkUpdate ==
    /\ updateCalls' = Append(updateCalls, appId)
    /\ handleClosePopover

\* open={popover === 'create'} of BookmarkForm
CreateOpen == popover = "create"

\* open={popover === 'update'} of the update Dialog
UpdateOpen == popover = "update"

\* 'Create Bookmark' menu item (route has an appId) or the Bookmark button (it has none)
ClickCreate ==
    /\ handleBookmarkClick("create")
    /\ lastEvent' = "create"
    /\ UNCHANGED <<appId, updateCalls, nSave, notAppBar>>

\* 'Update Bookmark' menu item: rendered only when route.params.appId is truthy
ClickUpdate ==
    /\ appId # NoAppId
    /\ handleBookmarkClick("update")
    /\ lastEvent' = "update"
    /\ UNCHANGED <<appId, updateCalls, nSave, notAppBar>>

\* onClose of BookmarkForm
CloseBookmarkForm ==
    /\ handleClosePopover
    /\ lastEvent' = "close"
    /\ UNCHANGED <<appId, updateCalls, nSave, notAppBar>>

\* onClose of the update Dialog
CloseDialog ==
    /\ UpdateOpen
    /\ handleClosePopover
    /\ lastEvent' = "close"
    /\ UNCHANGED <<appId, updateCalls, nSave, notAppBar>>

\* Cancel button of the update Dialog
ClickCancel ==
    /\ UpdateOpen
    /\ handleClosePopover
    /\ lastEvent' = "close"
    /\ UNCHANGED <<appId, updateCalls, nSave, notAppBar>>

\* Save button of the update Dialog
ClickSave ==
    /\ UpdateOpen
    /\ nSave < MaxSaves
    /\ handleBookmarkUpdate
    /\ nSave' = nSave + 1
    /\ lastEvent' = "save"
    /\ UNCHANGED <<appId, notAppBar>>

\* the router re-renders the component with another match
RouteChange ==
    /\ \E a \in AppIds \cup {NoAppId} : a # appId /\ appId' = a
    /\ UNCHANGED <<popover, updateCalls, lastEvent, nSave, notAppBar>>

NextAppBar ==
    \/ ClickCreate
    \/ ClickUpdate
    \/ CloseBookmarkForm
    \/ CloseDialog
    \/ ClickCancel
    \/ ClickSave
    \/ RouteChange

SpecAppBar == InitAppBar /\ [][NextAppBar]_vars

\* C1: the create dialog is open exactly when the last popover event selected
\* 'create' (and nothing closed it since), the update dialog exactly when it
\* selected 'update', and the two dialogs are never open together.
C1_DialogFollowsLastSelection ==
    /\ CreateOpen <=> lastEvent = "create"
    /\ UpdateOpen <=> lastEvent = "update"
    /\ ~(CreateOpen /\ UpdateOpen)

C1_Witness ==
    /\ lastEvent = "create"
    /\ CreateOpen
    /\ nSave > 0

\* C10: onBookmarkUpdate is called only by a Save click, once per Save, with the
\* route's appId, and the popover is '' right after; a step that is not a Save
\* leaves the calls alone; the popover becomes 'update' only while the route has
\* an appId.
C10_UpdateOnlyBySave ==
    /\ [](Len(updateCalls) = nSave)
    /\ [][ /\ (updateCalls' # updateCalls) =>
                /\ nSave' = nSave + 1
                /\ UpdateOpen
                /\ updateCalls' = Append(updateCalls, appId)
                /\ popover' = ""
           /\ (nSave' # nSave) => updateCalls' # updateCalls
           /\ (~UpdateOpen /\ UpdateOpen') => appId # NoAppId ]_vars

C10_Witness ==
    /\ nSave = 2
    /\ popover = ""
    /\ lastEvent = "save"
    /\ updateCalls[1] # updateCalls[2]

(***************************************************************************)
(* AskForm                                                                 *)
(***************************************************************************)
\* values the user can type into the TextField
Emails == {"", "a@x", "b@y"}

\* the ways an onSendEmail promise settles: data.ok true, data.ok false, rejected
Outcomes == {"ok", "notok", "rejected"}

\* const [email, setEmail] = React.useState<string>('')
InitAskForm ==
    /\ email = ""
    /\ pending = {}
    /\ nextReq = 1
    /\ outcomes = <<>>
    /\ PinnedNotAskForm

setEmail(value) == email' = value

\* function onChange(e) { setEmail(e.target.value) }
onChange(value) ==
    /\ setEmail(value)
    /\ UNCHANGED <<pending, nextReq, outcomes, notAskForm>>

\* handleSubmit up to its await: onSendEmail({ email }) is called with the
\* email of the render the click happened in
handleSubmit ==
    /\ nextReq <= MaxSubmits
    /\ pending' = pending \cup {[id |-> nextReq, email |-> email]}
    /\ nextReq' = nextReq + 1
    /\ UNCHANGED <<email, outcomes, notAskForm>>

\* faulty variant: the input is never cleared
EmailAfterSettle_NeverClears(outcome, current) == current

\* if (data.ok) { setEmail('') }; a rejected promise ends handleSubmit at the await
EmailAfterSettle(outcome, current) ==
    IF outcome = "ok" THEN "" ELSE current

\* handleSubmit after its await: the promise of request r settles
Settle(r, outcome) ==
    /\ r \in pending
    /\ pending' = pending \ {r}
    /\ setEmail(EmailAfterSettle(outcome, email))
    /\ outcomes' = Append(outcomes, outcome)
    /\ UNCHANGED <<nextReq, notAskForm>>

NextAskForm ==
    \/ \E value \in Emails : onChange(value)
    \/ handleSubmit
    \/ \E r \in pending, outcome \in Outcomes : Settle(r, outcome)

SpecAskForm == InitAskForm /\ [][NextAskForm]_vars

\* C2: in every interleaving of typing and pending submissions, the step in
\* which an onSendEmail call resolves with data.ok true leaves the email input
\* empty, and the step in which it resolves with data.ok false leaves the email
\* input as it was.
C2_ClearOnlyOnOk ==
    [][ Len(outcomes') > Len(outcomes) =>
          LET outcome == outcomes'[Len(outcomes')] IN
          /\ outcome = "ok" => email' = ""
          /\ outcome = "notok" => email' = email ]_vars

\* an ok resolution and a not-ok one have both happened, the input holds text
\* typed while a later submission (of another text) is still pending
C2_Witness ==
    /\ Len(outcomes) = 2
    /\ outcomes[1] = "ok"
    /\ outcomes[2] = "notok"
    /\ email = "a@x"
    /\ \E r \in pending : r.email = "b@y"

(***************************************************************************)
(* GroupingPopover                                                         *)
(***************************************************************************)
\* strings are sequences of characters
Chars == {"a", " "}
Whitespace == {" "}

GroupNames == {"color", "stroke"}

\* IGroupingSelectOption: { value, group, label }
Option(v, l) == [value |-> v, group |-> "run", label |-> l]

OptionUniverse ==
    { Option("v1", <<"a">>), Option("v2", <<" ", "a">>), Option("v3", <<"a", " ">>) }

OptionValues == {o.value : o \in OptionUniverse}

\* the sequences over S without repetition, of length at most n
InjectiveSeqs(S, n) ==
    UNION {{s \in [1..k -> S] : \A i, j \in 1..k : i # j => s[i] # s[j]} : k \in 0..n}

Strings(n) == UNION {[1..k -> Chars] : k \in 0..n}

Range(s) == {s[i] : i \in 1..Len(s)}

\* the entries of groupingData the component reads: groupingData[groupName] and
\* groupingData.reverseMode[groupName]
GroupingDatas ==
    {NoData} \cup [selected : InjectiveSeqs(OptionValues, MaxSelected), reverseMode : BOOLEAN]

\* String.prototype.indexOf: the first 0-based place of `search` in `str`, else -1
indexOf(str, search) ==
    LET places == {i \in 0..(Len(str) - Len(search)) :
                        SubSeq(str, i + 1, i + Len(search)) = search}
    IN  IF places = {} THEN -1 ELSE CHOOSE i \in places : \A j \in places : i <= j

\* Array.prototype.indexOf: the first 0-based place of `item` in `list`, else -1
arrayIndexOf(list, item) ==
    LET places == {i \in 0..(Len(list) - 1) : list[i + 1] = item}
    IN  IF places = {} THEN -1 ELSE CHOOSE i \in places : \A j \in places : i <= j

\* String.prototype.trim
RECURSIVE trimStart(_)
trimStart(str) ==
    IF str # <<>> /\ Head(str) \in Whitespace THEN trimStart(Tail(str)) ELSE str

RECURSIVE trimEnd(_)
trimEnd(str) ==
    IF str # <<>> /\ str[Len(str)] \in Whitespace
    THEN trimEnd(SubSeq(str, 1, Len(str) - 1))
    ELSE str

trim(str) == trimEnd(trimStart(str))

\* Array.prototype.sort with the comparator (a, b) => key(a) - key(b), on pairs
\* <<key, item>>: a stable sort (ECMAScript 2019), as an insertion sort
RECURSIVE InsertByKey(_, _)
InsertByKey(pair, sorted) ==
    IF sorted = <<>> THEN <<pair>>
    ELSE IF Head(sorted)[1] <= pair[1]
         THEN <<Head(sorted)>> \o InsertByKey(pair, Tail(sorted))
         ELSE <<pair>> \o sorted

RECURSIVE SortPairs(_)
SortPairs(pairs) ==
    IF pairs = <<>> THEN <<>>
    ELSE InsertByKey(pairs[Len(pairs)], SortPairs(SubSeq(pairs, 1, Len(pairs) - 1)))

sortByKey(pairs) ==
    LET sorted == SortPairs(pairs) IN [i \in 1..Len(sorted) |-> sorted[i][2]]

\* faulty variant: the filter is skipped only for the empty input
FilterOptions_NoTrim(selectOptions, input) ==
    IF input # <<>>
    THEN LET filtered == SelectSeq(selectOptions,
                                   LAMBDA item : indexOf(item.label, input) # -1)
         IN  sortByKey([i \in 1..Len(filtered) |->
                            <<indexOf(filtered[i].label, input), filtered[i]>>])
    ELSE selectOptions

\* const options = React.useMemo(...)
FilterOptions(selectOptions, input) ==
    IF trim(input) # <<>>
    THEN LET filtered == SelectSeq(selectOptions,
                                   LAMBDA item : indexOf(item.label, input) # -1)
         IN  sortByKey([i \in 1..Len(filtered) |->
                            <<indexOf(filtered[i].label, input), filtered[i]>>])
    ELSE selectOptions

\* the options handed to Autocomplete in the current render
options == FilterOptions(groupingSelectOptions, inputValue)

\* const values = React.useMemo(...): groupingData?.[groupName].indexOf(option.value)
\* is undefined when groupingData is, and undefined !== -1 holds
SelectedValues(data, selectOptions) ==
    LET pushed == SelectSeq(selectOptions,
                    LAMBDA option : IF data = NoData THEN TRUE
                                    ELSE arrayIndexOf(data.selected, option.value) # -1)
    IN  IF data # NoData
        THEN sortByKey([i \in 1..Len(pushed) |->
                            <<arrayIndexOf(data.selected, pushed[i].value), pushed[i]>>])
        ELSE pushed

\* the value handed to Autocomplete in the current render
values == SelectedValues(groupingData, groupingSelectOptions)

\* value={groupingData?.reverseMode[groupName] ? 'Reverse' : 'Group'} of ToggleButton
ToggleValue(data) ==
    IF data # NoData /\ data.reverseMode THEN "Reverse" ELSE "Group"

\* faulty variant: the options follow val instead of the mode shown
ModeChangeArgs_OptionsByTarget(name, data, selectOptions, val) ==
    [groupName |-> name,
     value |-> (val = "Reverse"),
     options |-> IF val = "Group" THEN Some(selectOptions) ELSE Null]

\* the argument handleGroupingMode(val) hands to onGroupingModeChange
ModeChangeArgs(name, data, selectOptions, val) ==
    [groupName |-> name,
     value |-> (val = "Reverse"),
     options |-> IF data # NoData /\ data.reverseMode THEN Some(selectOptions) ELSE Null]

InitGrouping ==
    /\ groupName \in GroupNames
    /\ groupingSelectOptions \in InjectiveSeqs(OptionUniverse, MaxOptions)
    /\ groupingData \in GroupingDatas
    /\ inputValue = <<>>
    /\ modeCall = NoCall
    /\ optionsByVal = [m \in Modes |-> {}]
    /\ PinnedNotGrouping

\* onChange of the text input: setInputValue(e.target?.value)
setInputValue(value) ==
    /\ inputValue' = value
    /\ UNCHANGED <<groupName, groupingSelectOptions, groupingData, modeCall,
                   optionsByVal, notGrouping>>

\* onChange(e, values) of Autocomplete; handleSelect(values) hands the values to
\* the onSelect prop and changes no state of the component
onChangeSelect(code) ==
    /\ IF code # "Backspace"
       THEN inputValue' = <<>>
       ELSE UNCHANGED inputValue
    /\ UNCHANGED <<groupName, groupingSelectOptions, groupingData, modeCall, optionsByVal,
                   notGrouping>>

\* handleGroupingMode(val, id), called by ToggleButton
handleGroupingMode(val) ==
    LET args == ModeChangeArgs(groupName, groupingData, groupingSelectOptions, val) IN
    /\ modeCall' = [val |-> val,
                    reverseBefore |-> (groupingData # NoData /\ groupingData.reverseMode),
                    args |-> args]
    /\ optionsByVal' = [optionsByVal EXCEPT ![val] = @ \cup {args.options # Null}]
    /\ UNCHANGED <<groupName, groupingSelectOptions, groupingData, inputValue,
                   notGrouping>>

\* the parent renders the component with another groupingData
groupingDataChange(data) ==
    /\ data # groupingData
    /\ groupingData' = data
    /\ UNCHANGED <<groupName, groupingSelectOptions, inputValue, modeCall,
                   optionsByVal, notGrouping>>

NextGrouping ==
    \/ \E value \in Strings(MaxInput) : setInputValue(value)
    \/ \E code \in {"Backspace", "Enter"} : onChangeSelect(code)
    \/ \E val \in Modes : handleGroupingMode(val)
    \/ \E data \in GroupingDatas : groupingDataChange(data)

SpecGrouping == InitGrouping /\ [][NextGrouping]_vars

\* `str` contains `search` as a substring
Contains(str, search) ==
    \E i \in 0..(Len(str) - Len(search)) : SubSeq(str, i + 1, i + Len(search)) = search

\* the 0-based place of the first occurrence of `search` in `str`
FirstPlace(str, search) ==
    CHOOSE i \in 0..Len(str) :
        /\ SubSeq(str, i + 1, i + Len(search)) = search
        /\ \A j \in 0..(i - 1) : SubSeq(str, j + 1, j + Len(search)) # search

\* the 1-based place of item in the sequence s (item occurs once in s)
PlaceIn(s, item) == CHOOSE i \in 1..Len(s) : s[i] = item

\* the displayed list holds exactly the options whose label contains inputValue,
\* each once, and displayed options whose first match is at the same place keep
\* the order they have in groupingSelectOptions
ExactlyTheMatches ==
    LET matches == {o \in Range(groupingSelectOptions) : Contains(o.label, inputValue)} IN
    /\ Range(options) = matches
    /\ Len(options) = Cardinality(matches)
    /\ \A i, j \in 1..Len(options) :
          (i < j /\ FirstPlace(options[i].label, inputValue)
                        = FirstPlace(options[j].label, inputValue))
            => PlaceIn(groupingSelectOptions, options[i])
                  < PlaceIn(groupingSelectOptions, options[j])

\* C3 as stated: for every inputValue the displayed options are exactly the
\* options whose label contains inputValue, ties of the sort in the order of
\* groupingSelectOptions.
C3_Original_ExactlyTheMatches == ExactlyTheMatches

\* C3 amended: for an inputValue that is not blank (trim(inputValue) is not
\* empty) the displayed options are exactly the options whose label contains
\* inputValue, ties of the sort in the order of groupingSelectOptions; for a
\* blank inputValue (empty or only whitespace) the whole of
\* groupingSelectOptions is displayed, in its order.
C3_MatchesUnlessBlank ==
    IF \E i \in 1..Len(inputValue) : inputValue[i] \notin Whitespace
    THEN ExactlyTheMatches
    ELSE options = groupingSelectOptions

\* a non-blank filter that drops an option and reorders the rest, with a tie
C3_Witness ==
    /\ inputValue = <<"a">>
    /\ Len(options) = 3
    /\ options # groupingSelectOptions
    /\ \E i \in 1..2 :
          /\ FirstPlace(options[i].label, inputValue)
                = FirstPlace(options[i + 1].label, inputValue)
          /\ FirstPlace(options[1].label, inputValue)
                < FirstPlace(options[3].label, inputValue)

\* the toggle shows 'Reverse' exactly when reverseMode[groupName] is true, and
\* the last handleGroupingMode(val) call passed the current groupName and
\* value = (val = 'Reverse')
ToggleAndValue ==
    /\ (ToggleValue(groupingData) = "Reverse")
          <=> (groupingData # NoData /\ groupingData.reverseMode)
    /\ ToggleValue(groupingData) \in Modes
    /\ modeCall # NoCall =>
          /\ modeCall.args.groupName = groupName
          /\ modeCall.args.value = (modeCall.val = "Reverse")

\* C4 as stated: ..., and the options a call passes are the option set of the
\* mode being switched to: all calls with the same val pass the same kind of
\* options (the option list, or null).
C4_Original_OptionsByTargetMode ==
    /\ ToggleAndValue
    /\ \A val \in Modes : Cardinality(optionsByVal[val]) <= 1

\* C4 amended: the toggle shows 'Reverse' exactly when reverseMode[groupName] is
\* true, handleGroupingMode(val) calls onGroupingModeChange with the current
\* groupName and value = (val = 'Reverse'), and the options it passes follow
\* the mode shown before the call, not val: groupingSelectOptions when
\* reverseMode[groupName] was true, null otherwise.
C4_OptionsByShownMode ==
    /\ ToggleAndValue
    /\ modeCall # NoCall =>
          modeCall.args.options =
              IF modeCall.reverseBefore THEN Some(groupingSelectOptions) ELSE Null

\* a call that leaves 'Reverse' for 'Group' and passes a non-empty option list
C4_Witness ==
    /\ modeCall # NoCall
    /\ modeCall.val = "Group"
    /\ modeCall.reverseBefore
    /\ modeCall.args.options = Some(groupingSelectOptions)
    /\ Len(groupingSelectOptions) = 2
    /\ ToggleValue(groupingData) = "Group"

\* C9: the selected values shown are exactly the options whose value is in
\* groupingData[groupName], in the order of their values in
\* groupingData[groupName]; with groupingData undefined nothing is selected.
C9_SelectedFollowGroupingData ==
    IF groupingData = NoData
    THEN values = <<>>
    ELSE LET chosen == {o \in Range(groupingSelectOptions) :
                            o.value \in Range(groupingData.selected)} IN
         /\ Range(values) = chosen
         /\ Len(values) = Cardinality(chosen)
         /\ \A i, j \in 1..Len(values) :
               i < j => PlaceIn(groupingData.selected, values[i].value)
                          < PlaceIn(groupingData.selected, values[j].value)

\* C9 where groupingData is defined (holds; scopes the divergence)
SelectedFollowDefinedGroupingData ==
    groupingData # NoData => C9_SelectedFollowGroupingData

(***************************************************************************)
(* exceptionHandler                                                        *)
(***************************************************************************)
\* the errors handed to exceptionHandler; message "" stands for a missing one
Details ==
    [name : {"SyntaxError", "TypeError"}, message : {"", "boom"}, line : {1, 2}, offset : {7}]

\* `Query syntax error at line (${detail.line}, ${detail.offset})`
SyntaxMessage(line, offset) ==
    [text |-> "Query syntax error at line", line |-> line, offset |-> offset]

PlainMessage(text) == [text |-> text]

\* faulty variant: detail.message is ignored
exceptionMessage_AlwaysGeneric(detail) ==
    IF detail.name = "SyntaxError"
    THEN SyntaxMessage(detail.line, detail.offset)
    ELSE PlainMessage("Something went wrong")

\* let message = ''; if (detail.name === 'SyntaxError') {...} else {...}
exceptionMessage(detail) ==
    IF detail.name = "SyntaxError"
    THEN SyntaxMessage(detail.line, detail.offset)
    ELSE IF detail.message # ""
         THEN PlainMessage(detail.message)
         ELSE PlainMessage("Something went wrong")

InitException ==
    /\ excPc = "idle"
    /\ excCall = NoExc
    /\ requestStatus \in [Models -> {"Pending", "Ok"}]
    /\ notifications = [m \in Models |-> <<>>]
    /\ resets = [m \in Models |-> <<>>]
    /\ handled = [m \in Models |-> 0]
    /\ now = 0
    /\ PinnedNotExc

\* faulty variant: the notification is added before setState
excOrder_NotifyFirst(pc) ==
    CASE pc = "idle" -> "notify"
      [] pc = "notify" -> "setState"
      [] pc = "setState" -> "reset"
      [] OTHER -> "idle"

\* the order of exceptionHandler's statements
excOrder(pc) ==
    CASE pc = "idle" -> "setState"
      [] pc = "setState" -> "notify"
      [] pc = "notify" -> "reset"
      [] OTHER -> "idle"

\* exceptionHandler({ detail, model }) is called: the message is computed
excBegin(detail, model) ==
    /\ excPc = "idle"
    /\ handled["runsAppModel"] + handled["metricsAppModel"] < MaxErrors
    /\ excCall' = [detail |-> detail, model |-> model, message |-> exceptionMessage(detail)]
    /\ handled' = [handled EXCEPT ![model] = @ + 1]
    /\ excPc' = excOrder(excPc)
    /\ UNCHANGED <<requestStatus, notifications, resets, now, notExc>>

\* model.setState({ requestStatus: RequestStatusEnum.BadRequest })
excSetState ==
    /\ excPc = "setState"
    /\ requestStatus' = [requestStatus EXCEPT ![excCall.model] = "BadRequest"]
    /\ excPc' = excOrder(excPc)
    /\ UNCHANGED <<excCall, notifications, resets, handled, now, notExc>>

\* onNotificationAdd({ notification: { id: Date.now(), severity, messages }, model })
excNotify ==
    /\ excPc = "notify"
    /\ notifications' = [notifications EXCEPT ![excCall.model] =
            Append(@, [id |-> now, severity |-> "error", messages |-> <<excCall.message>>])]
    /\ excPc' = excOrder(excPc)
    /\ UNCHANGED <<excCall, requestStatus, resets, handled, now, notExc>>

\* resetModelOnError({ detail, model })
excReset ==
    /\ excPc = "reset"
    /\ resets' = [resets EXCEPT ![excCall.model] = Append(@, excCall.detail)]
    /\ excPc' = excOrder(excPc)
    /\ UNCHANGED <<excCall, requestStatus, notifications, handled, now, notExc>>

\* time passes
Tick ==
    /\ now < MaxClock
    /\ now' = now + 1
    /\ UNCHANGED <<excPc, excCall, requestStatus, notifications, resets, handled, notExc>>

excStep == excSetState \/ excNotify \/ excReset

NextException ==
    \/ \E detail \in Details, model \in Models : excBegin(detail, model)
    \/ excSetState
    \/ excNotify
    \/ excReset
    \/ Tick

SpecException == InitException /\ [][NextException]_vars

\* the notification of the last completed call
LastNotification == notifications[excCall.model][Len(notifications[excCall.model])]

\* C5 as stated: an error named 'SyntaxError' yields the message with its line
\* and offset, and every other error yields the generic message.
C5_Original_OthersGetGeneric ==
    (excPc = "idle" /\ excCall # NoExc) =>
        LastNotification.messages[1] =
            IF excCall.detail.name = "SyntaxError"
            THEN SyntaxMessage(excCall.detail.line, excCall.detail.offset)
            ELSE PlainMessage("Something went wrong")

\* C5 amended: an error named 'SyntaxError' yields the message with its line
\* and offset; every other error yields its own message when it has a
\* non-empty one, and the generic message only when it has none.
C5_OthersGetOwnMessageOrGeneric ==
    (excPc = "idle" /\ excCall # NoExc) =>
        LastNotification.messages[1] =
            IF excCall.detail.name = "SyntaxError"
            THEN SyntaxMessage(excCall.detail.line, excCall.detail.offset)
            ELSE IF excCall.detail.message = ""
                 THEN PlainMessage("Something went wrong")
                 ELSE PlainMessage(excCall.detail.message)

\* a syntax error and an error with a message of its own have been handled
C5_Witness ==
    /\ excPc = "idle"
    /\ handled["runsAppModel"] = 2
    /\ notifications["runsAppModel"][1].messages = <<SyntaxMessage(2, 7)>>
    /\ notifications["runsAppModel"][2].messages = <<PlainMessage("boom")>>
    /\ excCall.detail.name = "TypeError"

\* C6: every completed call has added exactly one notification (severity
\* 'error', one message) to its model and reset it once; a notification is
\* added only once requestStatus of the model is BadRequest; the model is reset
\* only once the notification of the call is added; a started call can always
\* take its next statement, up to the reset.
C6_OneNotificationThenReset ==
    /\ [](excPc = "idle" => \A m \in Models :
              /\ Len(notifications[m]) = handled[m]
              /\ Len(resets[m]) = handled[m])
    /\ [](\A m \in Models : \A i \in 1..Len(notifications[m]) :
              /\ notifications[m][i].severity = "error"
              /\ Len(notifications[m][i].messages) = 1)
    /\ [](excPc # "idle" => ENABLED excStep)
    /\ [][ /\ (notifications' # notifications) =>
                /\ requestStatus[excCall.model] = "BadRequest"
                /\ Len(notifications'[excCall.model]) = handled[excCall.model]
                /\ \A m \in Models \ {excCall.model} : notifications'[m] = notifications[m]
           /\ (resets' # resets) =>
                /\ Len(notifications[excCall.model]) = handled[excCall.model]
                /\ resets' = [resets EXCEPT ![excCall.model] = Append(@, excCall.detail)]
                /\ excPc' = "idle" ]_vars

\* two errors handled on one model, none on the other
C6_Witness ==
    /\ excPc = "idle"
    /\ handled["metricsAppModel"] = 2
    /\ Len(notifications["metricsAppModel"]) = 2
    /\ Len(resets["metricsAppModel"]) = 2
    /\ requestStatus["metricsAppModel"] = "BadRequest"
    /\ requestStatus["runsAppModel"] = "Ok"
    /\ notifications["runsAppModel"] = <<>>


(***************************************************************************)
(* RunsContainer                                                           *)
(***************************************************************************)
InitRuns ==
    /\ mounted = [c \in Instances |-> 0]
    /\ requests = <<>>
    /\ initCount = 0
    /\ pageViews = 0
    /\ nMounts = 0
    /\ nUnmounts = 0
    /\ PinnedNotRuns

\* the effect: runsRequestRef = runsAppModel.initialize(); runsRequestRef.call();
\* analytics.pageView('[RunsExplorer]')
mountEffect(c) ==
    /\ requests' = Append(requests, [owner |-> c, events |-> <<"call">>])
    /\ initCount' = initCount + 1
    /\ pageViews' = pageViews + 1
    /\ mounted' = [mounted EXCEPT ![c] = Len(requests) + 1]

\* faulty variant: the cleanup does not abort
unmountCleanup_NoAbort(c) ==
    /\ requests' = requests
    /\ mounted' = [mounted EXCEPT ![c] = 0]

\* the effect's cleanup: runsRequestRef.abort()
unmountCleanup(c) ==
    /\ requests' = [requests EXCEPT ![mounted[c]].events = Append(@, "abort")]
    /\ mounted' = [mounted EXCEPT ![c] = 0]

Mount(c) ==
    /\ mounted[c] = 0
    /\ nMounts < MaxMounts
    /\ mountEffect(c)
    /\ nMounts' = nMounts + 1
    /\ UNCHANGED <<nUnmounts, notRuns>>

Unmount(c) ==
    /\ mounted[c] # 0
    /\ unmountCleanup(c)
    /\ nUnmounts' = nUnmounts + 1
    /\ UNCHANGED <<initCount, pageViews, nMounts, notRuns>>

NextRuns ==
    \/ \E c \in Instances : Mount(c)
    \/ \E c \in Instances : Unmount(c)

SpecRuns == InitRuns /\ [][NextRuns]_vars

\* C7: every mount initializes the model and calls its request once, every
\* unmount aborts the request of its own mount, a request is aborted only after
\* its call and only once, and a request is aborted exactly when the component
\* that made it is no longer mounted with it.
C7_FetchFollowsLifecycle ==
    /\ initCount = nMounts
    /\ Len(requests) = nMounts
    /\ Cardinality({r \in 1..Len(requests) : requests[r].events = <<"call", "abort">>})
          = nUnmounts
    /\ \A r \in 1..Len(requests) :
          /\ requests[r].events \in {<<"call">>, <<"call", "abort">>}
          /\ (requests[r].events = <<"call">>) <=> (mounted[requests[r].owner] = r)

\* a component mounted for the second time: its first request is aborted, its
\* second one is running, while the request of another component is running
C7_Witness ==
    /\ Len(requests) = 3
    /\ requests[1].owner = "c1" /\ requests[1].events = <<"call", "abort">>
    /\ requests[2].owner = "c2" /\ requests[2].events = <<"call">>
    /\ requests[3].owner = "c1" /\ requests[3].events = <<"call">>

(***************************************************************************)
(* onTableResizeModeChange                                                 *)
(***************************************************************************)
ResizeModes == {"Hide", "Resizable", "MaxWidth"}

Tables == [resizeMode : ResizeModes, rowHeight : {"sm", "md"}]

Configs == [table : Tables \cup {NoTable}, select : {"query"}]

\* encode(value) of utils/encoder, and its inverse
Encode(value) == [encoded |-> value]
Decode(item) == item.encoded

hasTable(state) == state.config # NoConfig /\ state.config.table # NoTable

InitTable ==
    /\ appState \in [Pages -> [config : Configs \cup {NoConfig}, requestIsPending : {FALSE}]]
    /\ storage \in [StorageKeys -> {NoItem, Encode([resizeMode |-> "Hide", rowHeight |-> "sm"])}]
    /\ tracked = <<>>
    /\ resizeCall = NoResize
    /\ PinnedNotTable

\* faulty variant: the table read from the state is stored, not the new one
resizedState_StoresOldTable(state, store, page, mode) ==
    IF hasTable(state)
    THEN [state |-> [state EXCEPT !.config.table.resizeMode = mode],
          store |-> [store EXCEPT ![TableKey(page)] = Encode(state.config.table)]]
    ELSE [state |-> state, store |-> store]

\* the state of the model and of local storage after the `if (configData?.table)`
\* block: setState({ config }) and setItem(`${page}Table`, encode(table))
resizedState(state, store, page, mode) ==
    IF hasTable(state)
    THEN LET table == [state.config.table EXCEPT !.resizeMode = mode]
             config == [state.config EXCEPT !.table = table]
         IN  [state |-> [state EXCEPT !.config = config],
              store |-> [store EXCEPT ![TableKey(page)] = Encode(table)]]
    ELSE [state |-> state, store |-> store]

\* onTableResizeModeChange({ mode, model, page }), model the model of `page`
onTableResizeModeChange(page, mode) ==
    LET after == resizedState(appState[page], storage, page, mode) IN
    /\ appState' = [appState EXCEPT ![page] = after.state]
    /\ storage' = after.store
    /\ tracked' = <<page, "Explorer", "Table", "Set table view mode to", mode>>
    /\ resizeCall' = [page |-> page, mode |-> mode]
    /\ UNCHANGED notTable

NextTable ==
    \E page \in Pages, mode \in ResizeModes : onTableResizeModeChange(page, mode)

SpecTable == InitTable /\ [][NextTable]_vars

\* C8: a call on a model whose state has config.table sets
\* config.table.resizeMode to the mode and changes nothing else of the state,
\* and stores under the page's key the encoding of the table the state now
\* holds; a call on a model without config.table changes neither; so for every
\* page resized so far the stored item decodes to the table of the page's model.
C8_StoredTableIsModelTable ==
    /\ [](\A p \in Pages :
            (resizeCall # NoResize /\ resizeCall.page = p /\ hasTable(appState[p])) =>
                /\ appState[p].config.table.resizeMode = resizeCall.mode
                /\ storage[TableKey(p)] = Encode(appState[p].config.table)
                /\ Decode(storage[TableKey(p)]) = appState[p].config.table)
    /\ [][ \A p \in Pages :
            IF resizeCall' # NoResize /\ resizeCall'.page = p /\ hasTable(appState[p])
            THEN /\ appState'[p].config.table.rowHeight = appState[p].config.table.rowHeight
                 /\ appState'[p].config.select = appState[p].config.select
                 /\ appState'[p].requestIsPending = appState[p].requestIsPending
                 /\ storage'[TableKey(p)] = Encode(appState'[p].config.table)
            ELSE /\ appState'[p] = appState[p]
                 /\ storage'[TableKey(p)] = storage[TableKey(p)] ]_vars
    /\ [][ \A p \in Pages :
            (hasTable(appState[p]) /\ storage[TableKey(p)] = Encode(appState[p].config.table))
                => storage'[TableKey(p)] = Encode(appState'[p].config.table) ]_vars

\* both pages resized, each stored table equal to the table of its model, the
\* two tables different
C8_Witness ==
    /\ resizeCall # NoResize
    /\ \A p \in Pages :
          /\ hasTable(appState[p])
          /\ storage[TableKey(p)] # NoItem
          /\ Decode(storage[TableKey(p)]) = appState[p].config.table
    /\ appState["runs"].config.table.resizeMode = "MaxWidth"
    /\ appState["metrics"].config.table.resizeMode = "Resizable"
    /\ appState["runs"].config.table.rowHeight = "md"
    /\ resizeCall.page = "runs"

====
